---- MODULE Spec2Model ----
(***************************************************************************)
(* Proof-of-existence pallet (pallets/poe/src/lib.rs): the Proofs storage  *)
(* map, the three dispatchables create_claim, transfer_claim and           *)
(* revoke_claim, the events they deposit and the DispatchResult they       *)
(* return.                                                                 *)
(***************************************************************************)
EXTENDS Integers, Sequences, FiniteSets, TLC

\* ---------------------------------------------------------------- bounds
NumAccounts == 2
MaxBlock == 1
MaxCalls == 4

\* ------------------------------------------------------------ Config
\* T::MaxBytesInHash, the runtime's bound on the length of a proof
MaxBytesInHash == 1

\* ----------------------------------------------------------------- types
AccountId == 1..NumAccounts
BlockNumber == 0..MaxBlock
Bytes == {0}

\* BoundedVec<u8, T::MaxBytesInHash>: byte strings of length <= MaxBytesInHash
BoundedVec == UNION {[1..n -> Bytes] : n \in 0..MaxBytesInHash}

\* Vec<u8>: the byte strings a caller can submit as a proof; one byte more than
\* the bound is enough to have strings that do not fit
VecU8 == UNION {[1..n -> Bytes] : n \in 0..(MaxBytesInHash + 1)}

\* faulty variants of fits: no length bound / a bound one byte too large
fits_unbounded(bytes) == TRUE

fits_off_by_one(bytes) == Len(bytes) <= MaxBytesInHash + 1

\* the length bound of the proof: BoundedVec<u8, T::MaxBytesInHash> parameter
fits(bytes) == Len(bytes) <= MaxBytesInHash

\* Option<T>
None == <<>>
Some(v) == <<v>>

\* RawOrigin: Root, Signed(AccountId), None
Signed(who) == [kind |-> "Signed", who |-> who]
Root == [kind |-> "Root", who |-> 0]
Unsigned == [kind |-> "None", who |-> 0]
OriginFor == {Signed(a) : a \in AccountId} \cup {Root, Unsigned}

\* faulty variant of ensure_signed: every origin is taken as a signer
ensure_signed_lenient(origin) == [ok |-> TRUE, who |-> origin.who]

\* ensure_signed(origin): Ok(who) for a signed origin, Err(BadOrigin) otherwise
ensure_signed(origin) ==
    IF origin.kind = "Signed" THEN [ok |-> TRUE, who |-> origin.who]
    ELSE [ok |-> FALSE, who |-> 0]

\* ---------------------------------------------------------------- events
ClaimCreated(who, claim) == <<"ClaimCreated", who, claim>>
ClaimRevoked(who, claim) == <<"ClaimRevoked", who, claim>>
ClaimTransfered(from, to, claim) == <<"ClaimTransfered", from, to, claim>>

\* ----------------------------------------------------------------- state
VARIABLES
    Proofs,        \* StorageMap: BoundedVec -> (AccountId, BlockNumber), OptionQuery
    events,        \* the events deposited so far, oldest first
    block_number,  \* frame_system::Pallet::<T>::block_number()
    last,          \* the most recent dispatched call, what it saw and its DispatchResult
    calls,         \* number of calls dispatched
    succeeded,     \* number of calls that returned Ok(())
    revoked,       \* per proof, the record removed by the latest successful revoke_claim
    start          \* Proofs as it was before the first of the calls counted in `calls`

vars == <<Proofs, events, block_number, last, calls, succeeded, revoked, start>>

\* ------------------------------------------------------ storage map calls
\* faulty variants of contains_key: the existence test always fails / always passes
contains_key_never(map, key) == FALSE

contains_key_always(map, key) == TRUE

contains_key(map, key) == key \in DOMAIN map

get(map, key) == IF key \in DOMAIN map THEN Some(map[key]) ELSE None

insert(map, key, value) ==
    [k \in DOMAIN map \cup {key} |-> IF k = key THEN value ELSE map[k]]

\* faulty variants of remove: the key is left in place / the whole map is cleared
remove_kept(map, key) == map

remove_cleared(map, key) == <<>>

remove(map, key) == [k \in DOMAIN map \ {key} |-> map[k]]

\* faulty variants of set_owner: the record is stamped again / the owner is not set
set_owner_restamped(values, account) ==
    IF values # None THEN Some(<<account, block_number>>) ELSE values

set_owner_skipped(values, account) == values

\* the closure handed to Proofs::mutate in transfer_claim
set_owner(values, account) ==
    IF values # None THEN Some(<<account, values[1][2]>>) ELSE values

\* StorageMap::mutate with OptionQuery: the closure's Some is stored, its None removes
mutate(map, key, account) ==
    LET values == set_owner(get(map, key), account) IN
    IF values # None THEN insert(map, key, values[1]) ELSE remove(map, key)

\* faulty variant of deposit_event: the event is lost
deposit_event_dropped(log, event) == log

deposit_event(log, event) == Append(log, event)

\* faulty variants of is_owner: no ownership test / the test inverted
is_owner_anyone(sender, owner) == TRUE

is_owner_inverted(sender, owner) == sender # owner

\* the sender == owner test of transfer_claim and revoke_claim
is_owner(sender, owner) == sender = owner

\* faulty variants of new_record: the block number or the sender is not stored
new_record_unstamped(sender, current_block) == <<sender, 0>>

new_record_fixed_owner(sender, current_block) == <<1, current_block>>

new_record_ahead(sender, current_block) == <<sender, current_block + 1>>

\* the value create_claim stores: (&sender, current_block)
new_record(sender, current_block) == <<sender, current_block>>

\* ------------------------------------------------------------ call record
NoAccount == 0

Call(name, origin, account, proof, result) ==
    [call |-> name, origin |-> origin, account |-> account, proof |-> proof,
     result |-> result, before |-> get(Proofs, proof), at |-> block_number]

\* an Err(..) return: nothing is written and nothing is deposited
Fail(name, origin, account, proof, error) ==
    /\ last' = Call(name, origin, account, proof, error)
    /\ calls' = calls + 1
    /\ UNCHANGED <<Proofs, events, block_number, succeeded, revoked, start>>

\* the Ok(()) return
Succeed(name, origin, account, proof) ==
    /\ last' = Call(name, origin, account, proof, "Ok")
    /\ calls' = calls + 1
    /\ succeeded' = succeeded + 1
    /\ UNCHANGED <<block_number, start>>

\* ------------------------------------------------------------------ Init
Init ==
    /\ Proofs = <<>>
    /\ events = <<>>
    /\ block_number = 0
    /\ last = [call |-> "none", origin |-> Unsigned, account |-> NoAccount,
               proof |-> <<>>, result |-> "none", before |-> None, at |-> 0]
    /\ calls = 0
    /\ succeeded = 0
    /\ revoked = <<>>
    /\ start = Proofs

\* ---------------------------------------------------------- dispatchables
\* Each action is one whole call, from ensure_signed to its return. "Panic" is
\* the expect("All proofs must have an owner!") of transfer_claim and
\* revoke_claim failing: get returned None after contains_key returned true.
create_claim(origin, proof) ==
    /\ calls < MaxCalls
    /\ LET signed == ensure_signed(origin)
           sender == signed.who IN
       IF ~signed.ok THEN Fail("create_claim", origin, NoAccount, proof, "BadOrigin")
       ELSE IF contains_key(Proofs, proof)
       THEN Fail("create_claim", origin, NoAccount, proof, "ProofAlreadyClaimed")
       ELSE /\ Proofs' = insert(Proofs, proof, new_record(sender, block_number))
            /\ events' = deposit_event(events, ClaimCreated(sender, proof))
            /\ Succeed("create_claim", origin, NoAccount, proof)
            /\ UNCHANGED revoked

transfer_claim(origin, account, proof) ==
    /\ calls < MaxCalls
    /\ LET signed == ensure_signed(origin)
           sender == signed.who
           found == get(Proofs, proof) IN
       IF ~signed.ok THEN Fail("transfer_claim", origin, account, proof, "BadOrigin")
       ELSE IF ~contains_key(Proofs, proof)
       THEN Fail("transfer_claim", origin, account, proof, "NoSuchProof")
       ELSE IF found = None
       THEN Fail("transfer_claim", origin, account, proof, "Panic")
       ELSE IF ~is_owner(sender, found[1][1])
       THEN Fail("transfer_claim", origin, account, proof, "NotProofOwner")
       ELSE /\ Proofs' = mutate(Proofs, proof, account)
            /\ events' = deposit_event(events, ClaimTransfered(sender, account, proof))
            /\ Succeed("transfer_claim", origin, account, proof)
            /\ UNCHANGED revoked

revoke_claim(origin, proof) ==
    /\ calls < MaxCalls
    /\ LET signed == ensure_signed(origin)
           sender == signed.who
           found == get(Proofs, proof) IN
       IF ~signed.ok THEN Fail("revoke_claim", origin, NoAccount, proof, "BadOrigin")
       ELSE IF ~contains_key(Proofs, proof)
       THEN Fail("revoke_claim", origin, NoAccount, proof, "NoSuchProof")
       ELSE IF found = None
       THEN Fail("revoke_claim", origin, NoAccount, proof, "Panic")
       ELSE IF ~is_owner(sender, found[1][1])
       THEN Fail("revoke_claim", origin, NoAccount, proof, "NotProofOwner")
       ELSE /\ Proofs' = remove(Proofs, proof)
            /\ events' = deposit_event(events, ClaimRevoked(sender, proof))
            /\ revoked' = insert(revoked, proof, found[1])
            /\ Succeed("revoke_claim", origin, NoAccount, proof)

\* a call whose proof does not fit BoundedVec<u8, T::MaxBytesInHash> has no
\* value of the parameter type: it is turned down and no dispatchable runs
too_long(origin, bytes) ==
    /\ calls < MaxCalls
    /\ Fail("too_long", origin, NoAccount, bytes, "TooLong")

\* the host moves on to the next block
next_block ==
    /\ block_number < MaxBlock
    /\ block_number' = block_number + 1
    /\ UNCHANGED <<Proofs, events, last, calls, succeeded, revoked, start>>

Next ==
    \/ \E origin \in OriginFor, proof \in VecU8 :
           fits(proof) /\ create_claim(origin, proof)
    \/ \E origin \in OriginFor, account \in AccountId, proof \in VecU8 :
           fits(proof) /\ transfer_claim(origin, account, proof)
    \/ \E origin \in OriginFor, proof \in VecU8 :
           fits(proof) /\ revoke_claim(origin, proof)
    \/ \E origin \in OriginFor, bytes \in VecU8 :
           ~fits(bytes) /\ too_long(origin, bytes)
    \/ next_block

Spec == Init /\ [][Next]_vars

\* ------------------------------------------------------- round-trip runs
\* Every content Proofs can have: any set of proofs, each with any owner and
\* any block number (each is reached from empty storage by create_claim calls
\* in the blocks wanted).
Registries == UNION {[keys -> AccountId \X BlockNumber] : keys \in SUBSET BoundedVec}

\* The calls start from any content of Proofs whose stamps are not in the future.
RoundTripInit ==
    /\ block_number \in BlockNumber
    /\ Proofs \in {map \in Registries : \A p \in DOMAIN map : map[p][2] <= block_number}
    /\ start = Proofs
    /\ events = <<>>
    /\ last = [call |-> "none", origin |-> Unsigned, account |-> NoAccount,
               proof |-> <<>>, result |-> "none", before |-> None, at |-> 0]
    /\ calls = 0
    /\ succeeded = 0
    /\ revoked = <<>>

\* create_claim(s, p) on an unclaimed p, then transfer_claim(s, s, p), then
\* revoke_claim(s, p), then create_claim(s2, p), in any blocks; s and p of the
\* later calls are those of the first call.
RoundTripNext ==
    \/ \E s \in AccountId, p \in BoundedVec :
           /\ calls = 0
           /\ ~contains_key(Proofs, p)
           /\ create_claim(Signed(s), p)
    \/ /\ calls = 1
       /\ transfer_claim(last.origin, last.origin.who, last.proof)
    \/ /\ calls = 2
       /\ revoke_claim(last.origin, last.proof)
    \/ \E s2 \in AccountId :
           /\ calls = 3
           /\ create_claim(Signed(s2), last.proof)
    \/ next_block

RoundTripSpec == RoundTripInit /\ [][RoundTripNext]_vars

\* ------------------------------------------------- reading the call record
\* `last` is the latest call; Proofs and events have not changed since it
\* returned (only next_block can have happened after it).
Called(name) == last.call = name /\ last.origin.kind = "Signed"

Sender == last.origin.who

Stored == get(Proofs, last.proof)

\* a step that is a dispatched call (next_block leaves calls alone)
IsCall == calls' = calls + 1

\* ------------------------------------------------------------------- C1
\* C1: create_claim by a signed sender s on a proof p that has no record
\* returns Ok, and afterwards Proofs maps p to exactly (s, the block number
\* current at that call).
C1_CreateOnUnclaimed ==
    (Called("create_claim") /\ last.before = None)
        => /\ last.result = "Ok"
           /\ Stored = Some(<<Sender, last.at>>)

\* a create on an unclaimed proof has succeeded in a block after genesis
C1_Witness ==
    /\ Called("create_claim") /\ last.before = None
    /\ last.result = "Ok"
    /\ last.at > 0
    /\ Sender > 1
    /\ last.proof \in DOMAIN Proofs

\* ------------------------------------------------------------------- C2
\* C2: create_claim by any signed sender (the owner included) on a proof that
\* already has a record returns ProofAlreadyClaimed and leaves that record,
\* owner and createdAt, as it was; and no create_claim step ever changes or
\* removes a record that existed before the step.
C2_RejectedBefore ==
    (Called("create_claim") /\ last.before # None)
        => /\ last.result = "ProofAlreadyClaimed"
           /\ Stored = last.before

C2_NeverOverwrites ==
    (IsCall /\ last'.call = "create_claim")
        => \A p \in DOMAIN Proofs : p \in DOMAIN Proofs' /\ Proofs'[p] = Proofs[p]

C2_CreateOnClaimed == []C2_RejectedBefore /\ [][C2_NeverOverwrites]_vars

\* the owner itself has tried to create its proof again, in a later block
C2_Witness ==
    /\ Called("create_claim") /\ last.before # None
    /\ last.result = "ProofAlreadyClaimed"
    /\ Sender = last.before[1][1]
    /\ last.at # last.before[1][2]

\* ------------------------------------------------------------------- C3
\* C3: every step that changes the owner of a proof's record or removes the
\* record is a successful transfer_claim or revoke_claim on that proof whose
\* signed sender is the owner stored for the proof just before the step.
C3_Step ==
    \A p \in DOMAIN Proofs :
        (p \notin DOMAIN Proofs' \/ Proofs'[p][1] # Proofs[p][1])
            => /\ IsCall
               /\ last'.call \in {"transfer_claim", "revoke_claim"}
               /\ last'.proof = p
               /\ last'.origin = Signed(Proofs[p][1])
               /\ last'.result = "Ok"

C3_OnlyOwnerChanges == [][C3_Step]_vars

\* an owner has handed its proof to another account
C3_Witness ==
    /\ Called("transfer_claim") /\ last.result = "Ok"
    /\ last.account # Sender
    /\ Stored # None /\ Stored[1][1] = last.account

\* ------------------------------------------------------------------- C4
\* C4: as long as the record of a proof stays in Proofs, its createdAt does
\* not change: no step keeps the record and alters its block number.
C4_Step ==
    \A p \in DOMAIN Proofs \cap DOMAIN Proofs' : Proofs'[p][2] = Proofs[p][2]

C4_CreatedAtImmutable == [][C4_Step]_vars

\* a record made in one block was transferred in a later one and kept its stamp
C4_Witness ==
    /\ Called("transfer_claim") /\ last.result = "Ok"
    /\ Stored # None
    /\ Stored[1][2] < last.at

\* ------------------------------------------------------------------- C5
\* C5: transfer_claim(o, n, p) by the current owner o of p, for any account
\* n, returns Ok and leaves p mapped to (n, t) where t is the createdAt p
\* had before the call.
C5_TransferByOwner ==
    (Called("transfer_claim") /\ last.before # None /\ last.before[1][1] = Sender)
        => /\ last.result = "Ok"
           /\ Stored = Some(<<last.account, last.before[1][2]>>)

\* the owner transferred to some other account, in a block after the create
C5_Witness ==
    /\ Called("transfer_claim") /\ last.before # None
    /\ last.before[1][1] = Sender
    /\ last.account # Sender
    /\ last.before[1][2] # last.at
    /\ last.result = "Ok"

\* ------------------------------------------------------------------- C6
\* C6: transfer_claim (to any account) and revoke_claim by a signed sender
\* that is not the owner of an existing record return NotProofOwner and leave
\* the record as it was; a call that returns NotProofOwner changes neither
\* Proofs nor events, so the same call made again meets the same state and
\* gives the same result.
C6_RejectedBefore ==
    (/\ Called("transfer_claim") \/ Called("revoke_claim")
     /\ last.before # None
     /\ last.before[1][1] # Sender)
        => /\ last.result = "NotProofOwner"
           /\ Stored = last.before

C6_NoEffect ==
    (IsCall /\ last'.result = "NotProofOwner") => Proofs' = Proofs /\ events' = events

C6_Repeated ==
    (/\ IsCall
     /\ last.result = "NotProofOwner"
     /\ last'.call = last.call /\ last'.origin = last.origin
     /\ last'.account = last.account /\ last'.proof = last.proof)
        => /\ last'.result = "NotProofOwner"
           /\ Proofs' = Proofs /\ events' = events

C6_NonOwnerRejected ==
    []C6_RejectedBefore /\ [][C6_NoEffect /\ C6_Repeated]_vars

\* a non-owner has tried to revoke a proof that another account owns
C6_Witness ==
    /\ Called("revoke_claim")
    /\ last.before # None /\ last.before[1][1] # Sender
    /\ last.result = "NotProofOwner"
    /\ events # <<>>

\* ------------------------------------------------------------------- C7
\* C7: transfer_claim and revoke_claim by any signed sender on a proof with no
\* record (never claimed, or revoked since) return NoSuchProof, not
\* NotProofOwner, and the call changes neither Proofs nor events.
C7_RejectedBefore ==
    (/\ Called("transfer_claim") \/ Called("revoke_claim")
     /\ last.before = None)
        => /\ last.result = "NoSuchProof"
           /\ Stored = None

C7_NoEffect ==
    (IsCall /\ last'.result = "NoSuchProof") => Proofs' = Proofs /\ events' = events

C7_AbsentRejected == []C7_RejectedBefore /\ [][C7_NoEffect]_vars

\* the former owner has tried to transfer a proof it had already revoked
C7_Witness ==
    /\ Called("transfer_claim")
    /\ last.before = None
    /\ last.proof \in DOMAIN revoked
    /\ revoked[last.proof][1] = Sender
    /\ last.result = "NoSuchProof"

\* ------------------------------------------------------------------- C8
\* C8: revoke_claim by the owner of a record returns Ok and removes the
\* record; a later create_claim on that proof by any signed sender, the
\* former owner or not, returns Ok and makes that sender the owner.
C8_RevokeThenCreate ==
    /\ (Called("revoke_claim") /\ last.before # None /\ last.before[1][1] = Sender)
           => /\ last.result = "Ok"
              /\ last.proof \notin DOMAIN Proofs
              /\ revoked[last.proof] = last.before[1]
    /\ (Called("create_claim") /\ last.proof \in DOMAIN revoked /\ last.before = None)
           => /\ last.result = "Ok"
              /\ Stored # None /\ Stored[1][1] = Sender

\* an account other than the former owner has claimed a revoked proof
C8_Witness ==
    /\ Called("create_claim") /\ last.result = "Ok"
    /\ last.proof \in DOMAIN revoked
    /\ revoked[last.proof][1] # Sender
    /\ Stored # None /\ Stored[1][1] = Sender

\* ------------------------------------------------------------------- C9
\* C9: a call that returns Ok appends exactly one event, ClaimCreated(s, p)
\* for create_claim, ClaimTransfered(s, n, p) for transfer_claim and
\* ClaimRevoked(s, p) for revoke_claim; a call that returns an error appends
\* none; so the number of events always equals the number of calls that
\* returned Ok.
C9_Expected(c) ==
    CASE c.call = "create_claim" -> ClaimCreated(c.origin.who, c.proof)
      [] c.call = "transfer_claim" -> ClaimTransfered(c.origin.who, c.account, c.proof)
      [] c.call = "revoke_claim" -> ClaimRevoked(c.origin.who, c.proof)

C9_Step ==
    IF IsCall /\ last'.result = "Ok"
    THEN events' = Append(events, C9_Expected(last'))
    ELSE events' = events

C9_OneEventPerSuccess == [](Len(events) = succeeded) /\ [][C9_Step]_vars

\* one event of each kind has been deposited and one call has failed
C9_Witness ==
    /\ Len(events) = 3
    /\ {events[i][1] : i \in 1..3} = {"ClaimCreated", "ClaimTransfered", "ClaimRevoked"}
    /\ calls = 4
    /\ succeeded = 3
    /\ last.result = "Ok"

\* ------------------------------------------------------------------ C10
\* C10 as stated: when a revoked proof is created again, the new record's
\* createdAt differs from the createdAt of the revoked record.
C10_NewCreatedAtDiffers ==
    (Called("create_claim") /\ last.result = "Ok" /\ last.proof \in DOMAIN revoked)
        => Stored[1][2] # revoked[last.proof][2]

\* C10 amended: when a revoked proof is created again, the new record's
\* createdAt is the block number current at that create_claim; it is never
\* less than the createdAt of the revoked record and differs from it exactly
\* when the block number has advanced since the revoked record was created.
C10_NewCreatedAtIsNow ==
    (Called("create_claim") /\ last.result = "Ok" /\ last.proof \in DOMAIN revoked)
        => /\ Stored[1][2] = last.at
           /\ Stored[1][2] >= revoked[last.proof][2]
           /\ (Stored[1][2] # revoked[last.proof][2]) <=> (last.at > revoked[last.proof][2])

\* a revoked proof has been created again in a later block than the revoked record
C10_Witness ==
    /\ Called("create_claim") /\ last.result = "Ok"
    /\ last.proof \in DOMAIN revoked
    /\ Stored[1][2] > revoked[last.proof][2]

\* ------------------------------------------------------------------ C11
\* C11: when transfer_claim(a, b, p) has returned Ok on a record (a, t) and
\* the next call is transfer_claim(b, c, p), that call returns Ok too and
\* leaves p mapped to (c, t), for all accounts a, b and c.
C11_Step ==
    (/\ IsCall
     /\ Called("transfer_claim") /\ last.result = "Ok"
     /\ last'.call = "transfer_claim"
     /\ last'.proof = last.proof
     /\ last'.origin = Signed(last.account))
        => /\ last'.result = "Ok"
           /\ get(Proofs', last.proof) = Some(<<last'.account, last.before[1][2]>>)
           /\ last'.before = Some(<<last.account, last.before[1][2]>>)

C11_ChainedTransfers == [][C11_Step]_vars

\* create, transfer a -> b and transfer b -> c were the first three calls, with
\* b different from a and from c, the transfers in a later block than the create
C11_Witness ==
    /\ calls = 3
    /\ Len(events) = 3
    /\ events[1][1] = "ClaimCreated"
    /\ \E a, b, c \in AccountId :
           /\ a # b /\ b # c
           /\ events[2] = ClaimTransfered(a, b, last.proof)
           /\ events[3] = ClaimTransfered(b, c, last.proof)
           /\ events[1] = ClaimCreated(a, last.proof)
           /\ Stored = Some(<<c, 0>>)
    /\ last.at = 1

\* ------------------------------------------------------------------ C12
\* C12: while the latest event about a proof p is ClaimTransfered(a, c, p)
\* with c # a (so c has neither transferred nor revoked p since), every
\* transfer_claim and revoke_claim on p by a returns NotProofOwner, and
\* revoke_claim on p by c returns Ok and removes the record.
C12_About(event) == event[Len(event)]

C12_LatestAbout(p) ==
    LET about == {i \in 1..Len(events) : C12_About(events[i]) = p} IN
    IF about = {} THEN <<"none">>
    ELSE events[CHOOSE i \in about : \A j \in about : j <= i]

C12_Step ==
    LET p == last'.proof
        latest == C12_LatestAbout(p) IN
    (/\ IsCall
     /\ last'.call \in {"transfer_claim", "revoke_claim"}
     /\ latest[1] = "ClaimTransfered"
     /\ latest[2] # latest[3])
        => /\ (last'.origin = Signed(latest[2]))
                  => (last'.result = "NotProofOwner" /\ Proofs' = Proofs)
           /\ (last'.origin = Signed(latest[3]) /\ last'.call = "revoke_claim")
                  => (last'.result = "Ok" /\ p \notin DOMAIN Proofs')

C12_RightsMoveWithOwnership == [][C12_Step]_vars

\* after create by a and transfer a -> c, a's revoke failed and c's revoke succeeded
C12_Witness ==
    /\ calls = 4
    /\ succeeded = 3
    /\ Called("revoke_claim") /\ last.result = "Ok"
    /\ Len(events) = 3
    /\ events[2][1] = "ClaimTransfered"
    /\ events[2][2] # events[2][3]
    /\ events[2][4] = last.proof
    /\ events[3] = ClaimRevoked(events[2][3], last.proof)
    /\ last.proof \notin DOMAIN Proofs

\* ------------------------------------------------------------------ C14
\* C14: transfer_claim(o, o, p) by the owner o of p to itself returns Ok,
\* leaves Proofs exactly as it was, p still mapped to (o, t), and deposits
\* the one event ClaimTransfered(o, o, p).
C14_Step ==
    LET p == last'.proof IN
    (/\ IsCall
     /\ last'.call = "transfer_claim"
     /\ last'.origin.kind = "Signed"
     /\ last'.account = last'.origin.who
     /\ p \in DOMAIN Proofs
     /\ Proofs[p][1] = last'.account)
        => /\ last'.result = "Ok"
           /\ Proofs' = Proofs
           /\ events' = Append(events, ClaimTransfered(last'.account, last'.account, p))

C14_SelfTransfer == [][C14_Step]_vars

\* an owner has transferred its proof to itself in a block after the create
C14_Witness ==
    /\ Called("transfer_claim") /\ last.result = "Ok"
    /\ last.account = Sender
    /\ last.before # None /\ last.before[1][2] < last.at
    /\ Stored = last.before
    /\ events[Len(events)] = ClaimTransfered(Sender, Sender, last.proof)

\* ------------------------------------------------------------------ C15
\* C15: Proofs starts empty, and in every state a proof p has a record exactly
\* when some create_claim on p has returned Ok and no revoke_claim on p has
\* returned Ok since; a record appears only by a create_claim on p returning
\* Ok and disappears only by a revoke_claim on p returning Ok. A proof never
\* given to create_claim has no record.
C15_Created(p) ==
    \E i \in 1..Len(events) :
        /\ events[i][1] = "ClaimCreated" /\ events[i][3] = p
        /\ \A j \in (i + 1)..Len(events) :
               ~(events[j][1] = "ClaimRevoked" /\ events[j][3] = p)

C15_Presence ==
    /\ calls = 0 => Proofs = <<>>
    /\ \A p \in BoundedVec : contains_key(Proofs, p) <=> C15_Created(p)

C15_Step ==
    \A p \in BoundedVec :
        LET done(name) == IsCall /\ last'.call = name /\ last'.proof = p
                              /\ last'.result = "Ok" IN
        /\ (~contains_key(Proofs, p) /\ contains_key(Proofs', p)) <=> done("create_claim")
        /\ (contains_key(Proofs, p) /\ ~contains_key(Proofs', p)) <=> done("revoke_claim")

C15_PresenceTracksHistory == []C15_Presence /\ [][C15_Step]_vars

\* one proof was created, revoked and created again and has a record; the other
\* proof was never given to create_claim and has none
C15_Witness ==
    /\ Len(events) = 3
    /\ \E p, q \in BoundedVec :
           /\ p # q
           /\ events[1][1] = "ClaimCreated" /\ events[1][3] = p
           /\ events[2][1] = "ClaimRevoked" /\ events[2][3] = p
           /\ events[3][1] = "ClaimCreated" /\ events[3][3] = p
           /\ contains_key(Proofs, p)
           /\ ~contains_key(Proofs, q)

\* ------------------------------------------------------------------ C17
\* C17: the expect("All proofs must have an owner!") never fails: no call
\* returns by that panic; and the mutate closure of transfer_claim always
\* finds a value, so a transfer_claim that returned Ok (and deposited
\* ClaimTransfered) has set the owner to the given account.
C17_NoPanic ==
    /\ last.result # "Panic"
    /\ \A p \in DOMAIN Proofs : get(Proofs, p) # None /\ Len(Proofs[p]) = 2
    /\ (last.call = "transfer_claim" /\ last.result = "Ok")
           => /\ last.before # None
              /\ Stored # None
              /\ Stored[1][1] = last.account
              /\ events[Len(events)][1] = "ClaimTransfered"

\* a transfer to another account and then a revoke by it both passed the lookup
C17_Witness ==
    /\ Called("revoke_claim") /\ last.result = "Ok"
    /\ Len(events) = 3
    /\ events[2] = ClaimTransfered(events[2][2], Sender, last.proof)
    /\ events[2][2] # Sender
    /\ last.before # None /\ last.before[1][1] = Sender

\* ------------------------------------------------------------------ C18
\* C18: a call on proof p, whatever it returns, leaves every other proof q as
\* it was: present or absent, and with the same owner and createdAt.
C18_Step ==
    IsCall => \A q \in BoundedVec \ {last'.proof} : get(Proofs', q) = get(Proofs, q)

C18_OtherProofsUntouched == [][C18_Step]_vars

\* one proof has been revoked while another proof, of another owner, kept its record
C18_Witness ==
    /\ Called("revoke_claim") /\ last.result = "Ok"
    /\ \E q \in DOMAIN Proofs :
           /\ q # last.proof
           /\ Proofs[q][1] # Sender
    /\ last.proof \notin DOMAIN Proofs

\* ------------------------------------------------------------------ C19
\* C19: create_claim, transfer_claim and revoke_claim called with an origin
\* that is not signed return BadOrigin (none of ProofAlreadyClaimed,
\* NoSuchProof, NotProofOwner), whether the proof has a record or not, and
\* the call changes no record and deposits no event.
C19_Rejected ==
    (/\ last.call \in {"create_claim", "transfer_claim", "revoke_claim"}
     /\ last.origin.kind # "Signed")
        => /\ last.result = "BadOrigin"
           /\ Stored = last.before

C19_NoEffect ==
    (IsCall /\ last'.origin.kind # "Signed") => Proofs' = Proofs /\ events' = events

C19_UnsignedRejected == []C19_Rejected /\ [][C19_NoEffect]_vars

\* the root origin has tried to revoke a proof that has a record
C19_Witness ==
    /\ last.call = "revoke_claim"
    /\ last.origin = Root
    /\ last.before # None
    /\ last.result = "BadOrigin"
    /\ Stored = last.before

\* ------------------------------------------------------------------ C20
\* C20: with a block number that never decreases, the createdAt of every
\* record in Proofs is at most the current block number.
C20_NoFutureStamp ==
    \A p \in DOMAIN Proofs : Proofs[p][2] <= block_number

\* one record was made in an earlier block and one in the current block
C20_Witness ==
    /\ block_number > 0
    /\ \E p, q \in DOMAIN Proofs :
           /\ Proofs[p][2] < block_number
           /\ Proofs[q][2] = block_number

\* ------------------------------------------------------------------ C16
\* C16: every key of Proofs has length at most MaxBytesInHash; a proof longer
\* than MaxBytesInHash reaches none of create_claim, transfer_claim and
\* revoke_claim: the call is turned down, nothing is written and no event is
\* deposited, and no event or revoked record ever names such a proof.
C16_Bounded ==
    /\ \A p \in DOMAIN Proofs : Len(p) <= MaxBytesInHash
    /\ \A p \in DOMAIN revoked : Len(p) <= MaxBytesInHash
    /\ \A i \in 1..Len(events) : Len(C12_About(events[i])) <= MaxBytesInHash
    /\ (last.call \in {"create_claim", "transfer_claim", "revoke_claim"})
           => Len(last.proof) <= MaxBytesInHash
    /\ (Len(last.proof) > MaxBytesInHash)
           => (last.call = "too_long" /\ last.result = "TooLong")

C16_NoEffect ==
    (IsCall /\ Len(last'.proof) > MaxBytesInHash) => Proofs' = Proofs /\ events' = events

C16_ProofLengthBounded == []C16_Bounded /\ [][C16_NoEffect]_vars

\* a proof of MaxBytesInHash + 1 bytes was turned down while Proofs holds a key
\* of exactly MaxBytesInHash bytes
C16_Witness ==
    /\ last.call = "too_long"
    /\ Len(last.proof) = MaxBytesInHash + 1
    /\ last.origin.kind = "Signed"
    /\ \E p \in DOMAIN Proofs : Len(p) = MaxBytesInHash

\* ------------------------------------------------------------------ C13
\* C13: from any state where p has no record, create_claim(s, p),
\* transfer_claim(s, s, p), revoke_claim(s, p), create_claim(s2, p) all return
\* Ok, and Proofs is then, but for the value of p's createdAt, what the single
\* call create_claim(s2, p) makes of the starting state: the starting map
\* with p mapped to a record owned by s2. (RoundTripSpec: the first call of a
\* run is that single create_claim, for every account.)
C13_SingleCreate(owner, proof, at) == insert(start, proof, new_record(owner, at))

C13_RoundTrip ==
    /\ succeeded = calls
    /\ calls >= 1 => last.proof \notin DOMAIN start
    /\ calls = 1 => Proofs = C13_SingleCreate(Sender, last.proof, last.at)
    /\ calls = 4 =>
           \E at \in BlockNumber : Proofs = C13_SingleCreate(Sender, last.proof, at)

\* the four calls are done: s created p in block 0, s2 # s created it again in
\* block 1, and the starting state held a record of another proof
C13_Witness ==
    /\ calls = 4 /\ succeeded = 4
    /\ start # <<>>
    /\ events[2][1] = "ClaimTransfered" /\ events[2][2] = events[2][3]
    /\ events[3][1] = "ClaimRevoked"
    /\ revoked[last.proof][1] # Sender
    /\ revoked[last.proof][2] = 0
    /\ Proofs[last.proof] = <<Sender, 1>>

====
